---- MODULE Spec2Model ----
(***************************************************************************)
(* micropython-timezone: the rule extractor (timezone_generator.py) and    *)
(* the runtime evaluator it emits (the generated timezone module, of which *)
(* examples/timezone_australian.py is one output).                         *)
(*                                                                         *)
(* The specifications share the variables:                                 *)
(*   Spec      the generated module at run time: ZoneInfo(key), utcoffset, *)
(*             dst, tzname over a clock that advances hour by hour;        *)
(*   SpecQuery the generated module queried in any order, the caller       *)
(*             keeping an earlier answer;                                  *)
(*   SpecCal   the calendar functions applied to drawn inputs:             *)
(*             _nth_weekday and find_dst_transitions;                      *)
(*   SpecGen   the generator's main flow: get_zone_info per requested      *)
(*             zone, generate_micropython_module, then a lookup in the     *)
(*             result;                                                     *)
(*   SpecAus   the hard-coded Australian module                            *)
(*             (examples/timezone_example_output.py): _first_sunday and    *)
(*             its _is_dst_active, hour by hour.                           *)
(***************************************************************************)
EXTENDS Integers, Sequences, FiniteSets, TLC

VARIABLES
    ZONES,      \* _ZONES of the loaded module: Option of a zone table
    _zone_cache, \* the module-level cache dict of ZoneInfo objects, by key
    tz,         \* the ZoneInfo handle held by the caller: Option of [key, zone_data]
    dt,         \* the naive datetime the caller queries: <<year, month, day, hour>>
    ret,        \* outcome of the last runtime call: [op, val]
    call,       \* SpecCal: the pending call and its arguments
    result,     \* Option of a call's return value (SpecCal, SpecAus) or of the
                \* outcome the caller kept (SpecQuery)
    todo,       \* SpecGen: zone names main() has still to process, sorted
    zone_data,  \* SpecGen: main()'s list of get_zone_info records
    warnings,   \* SpecGen: names for which main() caught ValueError
    gpc         \* SpecGen: position of main(): "extract", "emit", "done", "crashed"

vars == <<ZONES, _zone_cache, tz, dt, ret, call, result, todo, zone_data,
         warnings, gpc>>

\* ------------------------------------------------------------ Python values

\* None and a present value, as a sequence of length 0 or 1.
None == << >>
Some(x) == <<x>>
IsNone(o) == Len(o) = 0
Get(o) == o[1]

Abs(n) == IF n < 0 THEN -n ELSE n

\* int(x / k) for an integer x: Python's int() truncates toward zero.
IntTrunc(x, k) == IF x >= 0 THEN x \div k ELSE -((-x) \div k)

\* Lexicographic order of Python 3-tuples.
TupleLT(a, b) ==
    \/ a[1] < b[1]
    \/ a[1] = b[1] /\ a[2] < b[2]
    \/ a[1] = b[1] /\ a[2] = b[2] /\ a[3] < b[3]
TupleGE(a, b) == ~TupleLT(a, b)

\* ------------------------------------------------------- datetime.date

is_leap(year) == year % 4 = 0 /\ (year % 100 # 0 \/ year % 400 = 0)

days_in_month(year, month) ==
    IF month = 2 THEN (IF is_leap(year) THEN 29 ELSE 28)
    ELSE IF month \in {4, 6, 9, 11} THEN 30 ELSE 31

days_before_year(year) ==
    LET y == year - 1 IN y * 365 + y \div 4 - y \div 100 + y \div 400

RECURSIVE days_before_month(_, _)
days_before_month(year, month) ==
    IF month = 1 THEN 0
    ELSE days_before_month(year, month - 1) + days_in_month(year, month - 1)

\* date(year, month, day).toordinal()
toordinal(year, month, day) ==
    days_before_year(year) + days_before_month(year, month) + day

\* date(year, month, day).weekday(): 0 = Monday .. 6 = Sunday
weekday_of(year, month, day) == (toordinal(year, month, day) + 6) % 7

\* datetime(year, month, day, ...) raises ValueError unless the date exists.
valid_date(year, month, day) ==
    month \in 1..12 /\ day >= 1 /\ day <= days_in_month(year, month)

\* ------------------------------------------------------- _nth_weekday

\* The resolver with the backward walk of the "last" branch reversed.
nth_weekday_reversed_walk(year, month, week, weekday) ==
    LET first_weekday == weekday_of(year, month, 1)
        days_until == (weekday - first_weekday) % 7
        first_occurrence == 1 + days_until
    IN  IF week = 5
        THEN LET ny == IF month = 12 THEN year + 1 ELSE year
                 nm == IF month = 12 THEN 1 ELSE month + 1
                 last_day == toordinal(ny, nm, 1) - 1 - toordinal(year, month, 1) + 1
                 last_weekday == weekday_of(year, month, last_day)
                 days_back == (weekday - last_weekday) % 7
             IN  last_day - days_back
        ELSE first_occurrence + (week - 1) * 7

_nth_weekday(year, month, week, weekday) ==
    LET first_weekday == weekday_of(year, month, 1)
        days_until == (weekday - first_weekday) % 7
        first_occurrence == 1 + days_until
    IN  IF week = 5
        THEN LET ny == IF month = 12 THEN year + 1 ELSE year
                 nm == IF month = 12 THEN 1 ELSE month + 1
                 \* (next_month - timedelta(days=1)).day
                 last_day == toordinal(ny, nm, 1) - 1 - toordinal(year, month, 1) + 1
                 last_weekday == weekday_of(year, month, last_day)
                 days_back == (last_weekday - weekday) % 7
             IN  last_day - days_back
        ELSE first_occurrence + (week - 1) * 7

\* ------------------------------------------- the zoneinfo database (oracle)

\* The reference year get_zone_info samples and scans.
RefYear == 2024

\* A zone of the system database, as the generator observes it during one
\* year: std the standard offset and delta the DST amount, both in seconds,
\* alt0 whether the DST period is in force on 1 January, and flips the days
\* (<<month, day>>) at whose noon the period has changed since the noon before.
Zone(std, delta, alt0, flips) ==
    [std |-> std, delta |-> delta, alt0 |-> alt0, flips |-> flips]

\* Names in the order sorted() gives them.
ZoneOrder ==
    << "America/St_Johns", "Australia/Adelaide", "Europe/London",
       "Nowhere/Atlantis", "Pacific/Marquesas", "Synthetic/EarlyEnd",
       "Synthetic/OneFlip", "Synthetic/ThreeFlips", "UTC" >>

ZoneNames == {ZoneOrder[i] : i \in 1..Len(ZoneOrder)}

\* The zones the database knows; "Nowhere/Atlantis" is in no database.
TZDB ==
    [n \in ZoneNames \ {"Nowhere/Atlantis"} |->
        CASE n = "America/St_Johns" ->
                Zone(-12600, 3600, FALSE, {<<3, 10>>, <<11, 3>>})
          [] n = "Australia/Adelaide" ->
                Zone(34200, 3600, TRUE, {<<4, 7>>, <<10, 6>>})
          [] n = "Europe/London" ->
                Zone(0, 3600, FALSE, {<<3, 31>>, <<10, 27>>})
          [] n = "Pacific/Marquesas" ->
                Zone(-34200, 0, FALSE, {})
          [] n = "Synthetic/EarlyEnd" ->
                Zone(7200, 3600, TRUE, {<<1, 5>>, <<3, 10>>})
          [] n = "Synthetic/OneFlip" ->
                Zone(-10800, 3600, FALSE, {<<3, 10>>})
          [] n = "Synthetic/ThreeFlips" ->
                Zone(-14400, 3600, TRUE, {<<3, 24>>, <<10, 6>>, <<10, 15>>})
          [] OTHER ->
                Zone(0, 0, FALSE, {})]

\* Whether the DST period is in force at noon of month/day.
alt_at(z, month, day) ==
    LET n == Cardinality({f \in z.flips :
                 f[1] < month \/ (f[1] = month /\ f[2] <= day)})
    IN  IF n % 2 = 0 THEN z.alt0 ELSE ~z.alt0

\* datetime(year, month, day, 12, 0, tzinfo=tz).dst().total_seconds()
dst_seconds(z, month, day) == IF alt_at(z, month, day) THEN z.delta ELSE 0

\* datetime(year, month, day, 12, 0, tzinfo=tz).utcoffset().total_seconds()
utcoffset_seconds(z, month, day) == z.std + dst_seconds(z, month, day)

\* ------------------------------------------------ find_dst_transitions

\* The derivation with the "last occurrence" test off by one.
transition_rule_off_by_one(year, month, day, hour) ==
    LET weekday == weekday_of(year, month, day)
        first_weekday == weekday_of(year, month, 1)
        days_until == (weekday - first_weekday) % 7
        first_occurrence == 1 + days_until
        week == ((day - first_occurrence) \div 7) + 1
        next_occurrence == day + 7
    IN  [month |-> month,
         week |-> IF next_occurrence >= days_in_month(year, month) THEN 5 ELSE week,
         weekday |-> weekday,
         hour |-> hour]

\* One transition dict: month, week (1-4, 5 = last), weekday, hour.
transition_rule(year, month, day, hour) ==
    LET weekday == weekday_of(year, month, day)
        first_weekday == weekday_of(year, month, 1)
        days_until == (weekday - first_weekday) % 7
        first_occurrence == 1 + days_until
        week == ((day - first_occurrence) \div 7) + 1
        next_occurrence == day + 7
    IN  [month |-> month,
         week |-> IF next_occurrence > days_in_month(year, month) THEN 5 ELSE week,
         weekday |-> weekday,
         hour |-> hour]

\* The loop state is [prev_dst, transitions]. The loop body for a valid date:
scan_body(z, year, month, day, st) ==
    LET dst_active == dst_seconds(z, month, day) > 0
        flipped == ~IsNone(st.prev_dst) /\ dst_active # Get(st.prev_dst)
        found ==
            IF ~flipped THEN st.transitions
            ELSE IF dst_active
            THEN [st.transitions EXCEPT
                    !.start = Some(transition_rule(year, month, day, 2))]
            ELSE [st.transitions EXCEPT
                    !.end = Some(transition_rule(year, month, day, 3))]
    IN  [prev_dst |-> Some(dst_active), transitions |-> found]

\* One pass of "for month in range(1, 13): for day in range(1, 32)", the
\* passes numbered from 0 in loop order; an invalid date is skipped
\* (ValueError, continue).
scan_pass(z, year, idx, st) ==
    LET month == (idx \div 31) + 1
        day == (idx % 31) + 1
    IN  IF valid_date(year, month, day)
        THEN scan_body(z, year, month, day, st)
        ELSE st

\* The passes lo..hi in order from loop state st. The range is halved and the
\* state after the first half evaluated before the second half starts (the
\* test on it is never true), which keeps TLC's evaluation shallow.
RECURSIVE scan_passes(_, _, _, _, _)
scan_passes(z, year, lo, hi, st) ==
    IF lo = hi THEN scan_pass(z, year, lo, st)
    ELSE LET mid == (lo + hi) \div 2
             half == scan_passes(z, year, lo, mid, st)
         IN  IF DOMAIN half = {} THEN half
             ELSE scan_passes(z, year, mid + 1, hi, half)

find_dst_transitions(z, year) ==
    scan_passes(z, year, 0, 12 * 31 - 1,
        [prev_dst |-> None,
         transitions |-> [start |-> None, end |-> None]]).transitions

\* ------------------------------------------------------- get_zone_info

\* A Python value that is either a bool or a timedelta (in seconds).
PyBool(b) == [type |-> "bool", b |-> b, s |-> 0]
PyTimedelta(s) == [type |-> "timedelta", b |-> FALSE, s |-> s]
Truthy(v) == IF v.type = "bool" THEN v.b ELSE v.s # 0

\* (d and d.total_seconds() > 0): d itself when d is timedelta(0).
positive_dst(d) == IF d = 0 THEN PyTimedelta(0) ELSE PyBool(d > 0)

\* x or y
py_or(x, y) == IF Truthy(x) THEN x ELSE y

Raised(exc) == [ok |-> FALSE, exc |-> exc]
Returned(v) == [ok |-> TRUE, val |-> v]

\* get_zone_info naming the hemisphere after the July sample.
get_zone_info_by_july(zone_name) ==
    IF zone_name \notin DOMAIN TZDB THEN Raised("ValueError")
    ELSE
      LET z == TZDB[zone_name]
          jan_offset == utcoffset_seconds(z, 1, 15)
          jul_offset == utcoffset_seconds(z, 7, 15)
          jan_dst == dst_seconds(z, 1, 15)
          jul_dst == dst_seconds(z, 7, 15)
          has_dst == py_or(positive_dst(jan_dst), positive_dst(jul_dst))
          south == Truthy(positive_dst(jan_dst))
          std_offset ==
              IF Truthy(has_dst) /\ south THEN IntTrunc(jul_offset, 60)
              ELSE IntTrunc(jan_offset, 60)
          dst_offset ==
              IF ~Truthy(has_dst) THEN std_offset
              ELSE IF south THEN IntTrunc(jan_offset, 60)
              ELSE IntTrunc(jul_offset, 60)
          hemisphere ==
              IF ~Truthy(has_dst) THEN None
              ELSE IF Truthy(positive_dst(jul_dst)) THEN Some("south")
              ELSE Some("north")
          transitions ==
              IF Truthy(has_dst) THEN Some(find_dst_transitions(z, RefYear))
              ELSE None
      IN  Returned([name |-> zone_name,
                    std_offset_minutes |-> std_offset,
                    dst_offset_minutes |-> dst_offset,
                    has_dst |-> has_dst,
                    hemisphere |-> hemisphere,
                    transitions |-> transitions])

get_zone_info(zone_name) ==
    IF zone_name \notin DOMAIN TZDB THEN Raised("ValueError")
    ELSE
      LET z == TZDB[zone_name]
          jan_offset == utcoffset_seconds(z, 1, 15)
          jul_offset == utcoffset_seconds(z, 7, 15)
          jan_dst == dst_seconds(z, 1, 15)
          jul_dst == dst_seconds(z, 7, 15)
          has_dst == py_or(positive_dst(jan_dst), positive_dst(jul_dst))
          south == Truthy(positive_dst(jan_dst))
          std_offset ==
              IF Truthy(has_dst) /\ south THEN IntTrunc(jul_offset, 60)
              ELSE IntTrunc(jan_offset, 60)
          dst_offset ==
              IF ~Truthy(has_dst) THEN std_offset
              ELSE IF south THEN IntTrunc(jan_offset, 60)
              ELSE IntTrunc(jul_offset, 60)
          hemisphere ==
              IF ~Truthy(has_dst) THEN None
              ELSE IF south THEN Some("south") ELSE Some("north")
          transitions ==
              IF Truthy(has_dst) THEN Some(find_dst_transitions(z, RefYear))
              ELSE None
      IN  Returned([name |-> zone_name,
                    std_offset_minutes |-> std_offset,
                    dst_offset_minutes |-> dst_offset,
                    has_dst |-> has_dst,
                    hemisphere |-> hemisphere,
                    transitions |-> transitions])

\* ------------------------------------------ generate_micropython_module

\* ({t["month"]}, {t["week"]}, {t["weekday"]}, {t["hour"]}) of a transition dict
rule_tuple(t) == <<t.month, t.week, t.weekday, t.hour>>

\* The _ZONES line written for one record, as the value the module loads.
zone_line(z) ==
    IF Truthy(z.has_dst)
    THEN <<z.std_offset_minutes, z.dst_offset_minutes, TRUE, z.hemisphere,
           rule_tuple(Get(Get(z.transitions).start)),
           rule_tuple(Get(Get(z.transitions).end))>>
    ELSE <<z.std_offset_minutes, z.dst_offset_minutes, FALSE, None, None, None>>

\* start["month"] of a start or end that is None raises TypeError.
line_fails(z) ==
    /\ Truthy(z.has_dst)
    /\ \/ IsNone(Get(z.transitions).start)
       \/ IsNone(Get(z.transitions).end)

generate_micropython_module(zones) ==
    IF \E i \in 1..Len(zones) : line_fails(zones[i]) THEN Raised("TypeError")
    ELSE Returned(
        [k \in {zones[i].name : i \in 1..Len(zones)} |->
            zone_line(zones[CHOOSE i \in 1..Len(zones) :
                /\ zones[i].name = k
                /\ \A j \in 1..Len(zones) : zones[j].name = k => j <= i])])

\* ------------------------------------------- the generated module: evaluator

\* The evaluator with the northern comparison used for both hemispheres.
is_dst_active_both_and(d, zone_rule) ==
    LET has_dst == zone_rule[3]
        hemisphere == zone_rule[4]
        dst_start == zone_rule[5]
        dst_end == zone_rule[6]
    IN  IF ~has_dst THEN FALSE
        ELSE
          LET year == d[1]
              start_day == _nth_weekday(year, dst_start[1], dst_start[2], dst_start[3])
              end_day == _nth_weekday(year, dst_end[1], dst_end[2], dst_end[3])
              start_dt == <<dst_start[1], start_day, dst_start[4]>>
              end_dt == <<dst_end[1], end_day, dst_end[4]>>
              current == <<d[2], d[3], d[4]>>
          IN  IF hemisphere = Some("south")
              THEN TupleGE(current, start_dt) /\ TupleLT(current, end_dt)
              ELSE TupleGE(current, start_dt) /\ TupleLT(current, end_dt)

\* The evaluator with the southern comparison used for both hemispheres.
is_dst_active_both_or(d, zone_rule) ==
    LET has_dst == zone_rule[3]
        hemisphere == zone_rule[4]
        dst_start == zone_rule[5]
        dst_end == zone_rule[6]
    IN  IF ~has_dst THEN FALSE
        ELSE
          LET year == d[1]
              start_day == _nth_weekday(year, dst_start[1], dst_start[2], dst_start[3])
              end_day == _nth_weekday(year, dst_end[1], dst_end[2], dst_end[3])
              start_dt == <<dst_start[1], start_day, dst_start[4]>>
              end_dt == <<dst_end[1], end_day, dst_end[4]>>
              current == <<d[2], d[3], d[4]>>
          IN  IF hemisphere = Some("south")
              THEN TupleGE(current, start_dt) \/ TupleLT(current, end_dt)
              ELSE TupleGE(current, start_dt) \/ TupleLT(current, end_dt)

\* The evaluator with the transition hour left out of both boundaries.
is_dst_active_by_day(d, zone_rule) ==
    LET has_dst == zone_rule[3]
        hemisphere == zone_rule[4]
        dst_start == zone_rule[5]
        dst_end == zone_rule[6]
    IN  IF ~has_dst THEN FALSE
        ELSE
          LET year == d[1]
              start_day == _nth_weekday(year, dst_start[1], dst_start[2], dst_start[3])
              end_day == _nth_weekday(year, dst_end[1], dst_end[2], dst_end[3])
              start_dt == <<dst_start[1], start_day, 0>>
              end_dt == <<dst_end[1], end_day, 0>>
              current == <<d[2], d[3], d[4]>>
          IN  IF hemisphere = Some("south")
              THEN TupleGE(current, start_dt) \/ TupleLT(current, end_dt)
              ELSE TupleGE(current, start_dt) /\ TupleLT(current, end_dt)

\* The evaluator with the early return for a zone without DST returning True.
is_dst_active_unguarded(d, zone_rule) ==
    LET has_dst == zone_rule[3]
        hemisphere == zone_rule[4]
        dst_start == zone_rule[5]
        dst_end == zone_rule[6]
    IN  IF ~has_dst THEN TRUE
        ELSE
          LET year == d[1]
              start_day == _nth_weekday(year, dst_start[1], dst_start[2], dst_start[3])
              end_day == _nth_weekday(year, dst_end[1], dst_end[2], dst_end[3])
              start_dt == <<dst_start[1], start_day, dst_start[4]>>
              end_dt == <<dst_end[1], end_day, dst_end[4]>>
              current == <<d[2], d[3], d[4]>>
          IN  IF hemisphere = Some("south")
              THEN TupleGE(current, start_dt) \/ TupleLT(current, end_dt)
              ELSE TupleGE(current, start_dt) /\ TupleLT(current, end_dt)

\* zone_rule (zone_data in the source) is the 6-tuple (std_off, dst_off, has_dst, hemisphere, dst_start,
\* dst_end); d is the naive datetime <<year, month, day, hour>> (the minute and
\* the second of a datetime are not read).
_is_dst_active(d, zone_rule) ==
    LET has_dst == zone_rule[3]
        hemisphere == zone_rule[4]
        dst_start == zone_rule[5]
        dst_end == zone_rule[6]
    IN  IF ~has_dst THEN FALSE
        ELSE
          LET year == d[1]
              start_day == _nth_weekday(year, dst_start[1], dst_start[2], dst_start[3])
              end_day == _nth_weekday(year, dst_end[1], dst_end[2], dst_end[3])
              start_dt == <<dst_start[1], start_day, dst_start[4]>>
              end_dt == <<dst_end[1], end_day, dst_end[4]>>
              current == <<d[2], d[3], d[4]>>
          IN  IF hemisphere = Some("south")
              THEN TupleGE(current, start_dt) \/ TupleLT(current, end_dt)
              ELSE TupleGE(current, start_dt) /\ TupleLT(current, end_dt)

\* The constructor falling back to the UTC entry for an unknown key.
ZoneInfo_init_fallback(table, key) ==
    IF key \notin DOMAIN table
    THEN Returned([key |-> key, zone_data |-> table["UTC"]])
    ELSE Returned([key |-> key, zone_data |-> table[key]])

\* ZoneInfo.__init__: the handle, or KeyError.
ZoneInfo_init(table, key) ==
    IF key \notin DOMAIN table THEN Raised("KeyError")
    ELSE Returned([key |-> key, zone_data |-> table[key]])

\* timedelta(minutes=m), held in seconds.
timedelta_minutes(m) == m * 60

\* utcoffset with the two offsets exchanged.
utcoffset_swapped(self, d) ==
    IF _is_dst_active(d, self.zone_data)
    THEN timedelta_minutes(self.zone_data[1])
    ELSE timedelta_minutes(self.zone_data[2])

\* ZoneInfo.utcoffset
utcoffset(self, d) ==
    IF _is_dst_active(d, self.zone_data)
    THEN timedelta_minutes(self.zone_data[2])
    ELSE timedelta_minutes(self.zone_data[1])

\* ZoneInfo.dst
dst(self, d) ==
    IF _is_dst_active(d, self.zone_data)
    THEN timedelta_minutes(self.zone_data[2] - self.zone_data[1])
    ELSE 0

\* Text is a sequence of one-character strings.
DigitChar(n) == <<"0", "1", "2", "3", "4", "5", "6", "7", "8", "9">>[n + 1]

RECURSIVE Decimal(_)
Decimal(n) == IF n < 10 THEN <<DigitChar(n)>>
              ELSE Decimal(n \div 10) \o <<DigitChar(n % 10)>>

\* f"{n:+d}"
format_plus_d(n) == (IF n < 0 THEN <<"-">> ELSE <<"+">>) \o Decimal(Abs(n))

\* f"{n:02d}" for n >= 0
format_02d(n) == IF n < 10 THEN <<"0">> \o Decimal(n) ELSE Decimal(n)

\* ZoneInfo.tzname
tzname(self, d) ==
    LET offset == utcoffset(self, d)
        total_minutes == offset \div 60
        hours == total_minutes \div 60
        minutes == Abs(total_minutes % 60)
    IN  IF minutes # 0
        THEN <<"U", "T", "C">> \o format_plus_d(hours) \o <<":">> \o format_02d(minutes)
        ELSE <<"U", "T", "C">> \o format_plus_d(hours)

\* available_timezones(): set(_ZONES.keys())
available_timezones(table) == DOMAIN table

\* ----------------------------------------------------------- the caller

NoRet == [op |-> "none"]

\* Years the run-time clock covers, from the reference year on.
NumYears == 2
Years == RefYear .. (RefYear + NumYears - 1)

\* The module the generator writes for the zones of the database that follow
\* one yearly start and end (sections 170-183 applied to their records).
LoadedZones == << "America/St_Johns", "Australia/Adelaide", "Europe/London",
                  "Pacific/Marquesas", "UTC" >>
LoadedTable ==
    generate_micropython_module(
        [i \in 1..Len(LoadedZones) |-> get_zone_info(LoadedZones[i]).val]).val

\* The hour after d.
next_hour(d) ==
    IF d[4] < 23 THEN <<d[1], d[2], d[3], d[4] + 1>>
    ELSE IF d[3] < days_in_month(d[1], d[2]) THEN <<d[1], d[2], d[3] + 1, 0>>
    ELSE IF d[2] < 12 THEN <<d[1], d[2] + 1, 1, 0>>
    ELSE <<d[1] + 1, 1, 1, 0>>

IdleCal == call = [fn |-> "none"] /\ result = None
IdleGen == todo = << >> /\ zone_data = << >> /\ warnings = {} /\ gpc = "idle"
IdleRun == dt = <<RefYear, 1, 1, 0>> /\ ret = NoRet /\ tz = None

\* _zone_cache = {} at import.
EmptyCache == _zone_cache = << >>

Init ==
    /\ ZONES = Some(LoadedTable)
    /\ EmptyCache
    /\ tz = None
    /\ dt \in {<<y, 1, 1, 0>> : y \in Years}
    /\ ret = NoRet
    /\ IdleCal
    /\ IdleGen

\* ZoneInfo(key) keeping every handle it builds in the module-level cache.
ZoneInfoInit_cached(key) ==
    /\ ~IsNone(ZONES)
    /\ LET r == ZoneInfo_init(Get(ZONES), key)
       IN  IF r.ok
           THEN /\ tz' = Some(r.val)
                /\ ret' = [op |-> "ZoneInfo", key |-> key, val |-> "ok"]
                /\ _zone_cache' =
                       [k \in DOMAIN _zone_cache \cup {key} |->
                           IF k = key THEN r.val ELSE _zone_cache[k]]
           ELSE /\ tz' = tz
                /\ ret' = [op |-> "ZoneInfo", key |-> key, val |-> r.exc]
                /\ _zone_cache' = _zone_cache
    /\ UNCHANGED <<ZONES, dt, call, result, todo, zone_data, warnings, gpc>>

\* tz = ZoneInfo(key). At run time the caller builds its handle once (a handle
\* is immutable and shares nothing with another one).
ZoneInfoInit(key) ==
    /\ ~IsNone(ZONES)
    /\ LET r == ZoneInfo_init(Get(ZONES), key)
       IN  IF r.ok
           THEN /\ tz' = Some(r.val)
                /\ ret' = [op |-> "ZoneInfo", key |-> key, val |-> "ok"]
           ELSE /\ tz' = tz
                /\ ret' = [op |-> "ZoneInfo", key |-> key, val |-> r.exc]
    /\ UNCHANGED <<ZONES, dt, call, result, todo, zone_data, warnings, gpc, _zone_cache>>

\* tz.utcoffset(dt)
Utcoffset ==
    /\ ~IsNone(tz)
    /\ ret' = [op |-> "utcoffset", val |-> utcoffset(Get(tz), dt)]
    /\ UNCHANGED <<ZONES, tz, dt, call, result, todo, zone_data, warnings, gpc, _zone_cache>>

\* tz.dst(dt)
Dst ==
    /\ ~IsNone(tz)
    /\ ret' = [op |-> "dst", val |-> dst(Get(tz), dt)]
    /\ UNCHANGED <<ZONES, tz, dt, call, result, todo, zone_data, warnings, gpc, _zone_cache>>

\* tz.tzname(dt)
Tzname ==
    /\ ~IsNone(tz)
    /\ ret' = [op |-> "tzname", val |-> tzname(Get(tz), dt)]
    /\ UNCHANGED <<ZONES, tz, dt, call, result, todo, zone_data, warnings, gpc, _zone_cache>>

\* The caller's clock advances one hour; the next query is for the new hour.
Tick ==
    /\ next_hour(dt)[1] \in Years
    /\ dt' = next_hour(dt)
    /\ ret' = NoRet
    /\ UNCHANGED <<ZONES, tz, call, result, todo, zone_data, warnings, gpc, _zone_cache>>

Next ==
    \/ \E key \in DOMAIN LoadedTable \cup {"Nowhere/Atlantis"} :
           IsNone(tz) /\ ZoneInfoInit(key)
    \/ Utcoffset
    \/ Dst
    \/ Tzname
    \/ Tick

Spec == Init /\ [][Next]_vars

\* ------------------------------------- SpecQuery: queries in any order

\* The datetimes a caller asks about: 02:00 on 7 April and on 7 October, noon
\* in mid-January and in mid-July, of each year.
QueryTimes ==
    {<<y, m, 7, 2>> : y \in Years, m \in {4, 10}} \cup
    {<<y, m, 15, 12>> : y \in Years, m \in {1, 7}}

InitQuery ==
    /\ ZONES = Some(LoadedTable)
    /\ EmptyCache
    /\ tz = None
    /\ dt \in QueryTimes
    /\ ret = NoRet
    /\ IdleCal
    /\ IdleGen

\* available_timezones()
AvailableTimezones ==
    /\ ~IsNone(ZONES)
    /\ ret' = [op |-> "available_timezones", val |-> available_timezones(Get(ZONES))]
    /\ UNCHANGED <<ZONES, tz, dt, call, result, todo, zone_data, warnings, gpc, _zone_cache>>

\* The caller turns to another datetime.
SetTime ==
    /\ \E d \in QueryTimes : dt' = d
    /\ ret' = NoRet
    /\ UNCHANGED <<ZONES, tz, call, result, todo, zone_data, warnings, gpc, _zone_cache>>

\* The caller keeps the outcome of the call it just made, with its inputs.
Remember ==
    /\ ret.op # "none"
    /\ result' = Some([tz |-> tz, dt |-> dt, ret |-> ret])
    /\ UNCHANGED <<ZONES, tz, dt, ret, call, todo, zone_data, warnings, gpc, _zone_cache>>

NextQuery ==
    \/ \E key \in DOMAIN LoadedTable \cup {"Nowhere/Atlantis"} : ZoneInfoInit(key)
    \/ Utcoffset
    \/ Dst
    \/ Tzname
    \/ AvailableTimezones
    \/ SetTime
    \/ Remember

SpecQuery == InitQuery /\ [][NextQuery]_vars

\* ------------------- SpecAus: examples/timezone_example_output.py

\* _first_sunday with the leap-year term (k // 4) left out.
first_sunday_no_leap_term(year, month) ==
    LET m == IF month < 3 THEN month + 12 ELSE month
        y == IF month < 3 THEN year - 1 ELSE year
        q == 1
        k == y % 100
        j == y \div 100
        h == (q + ((13 * (m + 1)) \div 5) + k + (j \div 4) - 2 * j) % 7
        weekday == (h + 5) % 7
        until == (6 - weekday) % 7
        days_until_sunday == IF until = 0 /\ weekday # 6 THEN 7 ELSE until
    IN  1 + days_until_sunday

\* Day of month of the first Sunday, by Zeller's congruence for the 1st
\* (h: 0 = Saturday, 1 = Sunday, ... 6 = Friday).
_first_sunday(year, month) ==
    LET m == IF month < 3 THEN month + 12 ELSE month
        y == IF month < 3 THEN year - 1 ELSE year
        q == 1
        k == y % 100
        j == y \div 100
        h == (q + ((13 * (m + 1)) \div 5) + k + (k \div 4) + (j \div 4) - 2 * j) % 7
        weekday == (h + 5) % 7
        until == (6 - weekday) % 7
        days_until_sunday == IF until = 0 /\ weekday # 6 THEN 7 ELSE until
    IN  1 + days_until_sunday

\* _is_dst_active(dt, has_dst) of the hard-coded module: first Sunday of
\* October 02:00 -> first Sunday of April 03:00.
example_is_dst_active(d, has_dst) ==
    IF ~has_dst THEN FALSE
    ELSE
      LET year == d[1]
          month == d[2]
          day == d[3]
          hour == d[4]
          oct_sunday == _first_sunday(year, 10)
          apr_sunday == _first_sunday(year, 4)
      IN  IF month > 10 THEN TRUE
          ELSE IF month = 10
          THEN IF day > oct_sunday THEN TRUE
               ELSE IF day = oct_sunday /\ hour >= 2 THEN TRUE
               ELSE FALSE
          ELSE IF month < 4 THEN TRUE
          ELSE IF month = 4
          THEN IF day < apr_sunday THEN TRUE
               ELSE IF day = apr_sunday /\ hour < 3 THEN TRUE
               ELSE FALSE
          ELSE FALSE

\* Years the hard-coded module is queried for, from the reference year on.
NumAusYears == 10
AusYears == RefYear .. (RefYear + NumAusYears - 1)

InitAus ==
    /\ dt \in {<<y, 1, 1, 0>> : y \in AusYears}
    /\ ret = NoRet
    /\ result = None
    /\ call = [fn |-> "none"]
    /\ tz = None
    /\ ZONES = None
    /\ EmptyCache
    /\ IdleGen

\* _first_sunday(dt.year, dt.month)
CallFirstSunday ==
    /\ IsNone(result)
    /\ result' = Some([year |-> dt[1], month |-> dt[2],
                       day |-> _first_sunday(dt[1], dt[2])])
    /\ UNCHANGED <<ZONES, tz, dt, ret, call, todo, zone_data, warnings, gpc, _zone_cache>>

\* _is_dst_active(dt, has_dst)
CallExampleIsDstActive ==
    /\ \E has_dst \in BOOLEAN :
          ret' = [op |-> "example._is_dst_active", has_dst |-> has_dst,
                  val |-> example_is_dst_active(dt, has_dst)]
    /\ UNCHANGED <<ZONES, tz, dt, call, result, todo, zone_data, warnings, gpc, _zone_cache>>

\* The next call is for the hour after dt.
AusTick ==
    /\ next_hour(dt)[1] \in AusYears
    /\ dt' = next_hour(dt)
    /\ ret' = NoRet
    /\ result' = None
    /\ UNCHANGED <<ZONES, tz, call, todo, zone_data, warnings, gpc, _zone_cache>>

NextAus ==
    \/ CallFirstSunday
    \/ CallExampleIsDstActive
    \/ AusTick

SpecAus == InitAus /\ [][NextAus]_vars

\* ------------------------------------------------ SpecCal: drawn calls

\* Calendar years the drawn calls cover, around the reference year.
YearSpan == 14
CalYears == (RefYear - YearSpan) .. (RefYear + YearSpan)

NthWeekdayCalls ==
    {[fn |-> "_nth_weekday", year |-> y, month |-> m, week |-> w, weekday |-> wd] :
        y \in CalYears, m \in 1..12, w \in 1..5, wd \in 0..6}

\* find_dst_transitions(tz, year) for a zone whose DST flag changes on one day.
ScanCalls ==
    {[fn |-> "find_dst_transitions", year |-> y, month |-> md[1], day |-> md[2],
      tz |-> Zone(0, 3600, a, {md})] :
        y \in CalYears, md \in (1..12) \X (1..31), a \in BOOLEAN}

InitCal ==
    /\ call \in NthWeekdayCalls \cup
                {c \in ScanCalls : valid_date(c.year, c.month, c.day)}
    /\ result = None
    /\ ZONES = None
    /\ IdleRun
    /\ IdleGen
    /\ EmptyCache

CallNthWeekday ==
    /\ call.fn = "_nth_weekday"
    /\ IsNone(result)
    /\ result' = Some(_nth_weekday(call.year, call.month, call.week, call.weekday))
    /\ UNCHANGED <<ZONES, tz, dt, ret, call, todo, zone_data, warnings, gpc, _zone_cache>>

CallFindDstTransitions ==
    /\ call.fn = "find_dst_transitions"
    /\ IsNone(result)
    /\ result' = Some(find_dst_transitions(call.tz, call.year))
    /\ UNCHANGED <<ZONES, tz, dt, ret, call, todo, zone_data, warnings, gpc, _zone_cache>>

NextCal ==
    \/ CallNthWeekday
    \/ CallFindDstTransitions

SpecCal == InitCal /\ [][NextCal]_vars

\* ------------------------------------------------ SpecGen: main()

\* sorted(zones_to_include)
Sorted(S) == SelectSeq(ZoneOrder, LAMBDA n : n \in S)

\* main() without the "Always include UTC" line.
InitGen_without_utc ==
    /\ \E requested \in SUBSET ZoneNames \ {{}} :
           todo = Sorted(requested)
    /\ zone_data = << >>
    /\ warnings = {}
    /\ gpc = "extract"
    /\ ZONES = None
    /\ IdleRun
    /\ IdleCal
    /\ EmptyCache

\* main() from "Always include UTC" on, for any non-empty set of names given
\* on the command line or in the config file.
InitGen ==
    /\ \E requested \in SUBSET ZoneNames \ {{}} :
           todo = Sorted(requested \cup {"UTC"})
    /\ zone_data = << >>
    /\ warnings = {}
    /\ gpc = "extract"
    /\ ZONES = None
    /\ IdleRun
    /\ IdleCal
    /\ EmptyCache

\* One pass of "for zone_name in sorted(zones_to_include)".
ExtractZone ==
    /\ gpc = "extract"
    /\ todo # << >>
    /\ LET r == get_zone_info(Head(todo))
       IN  IF r.ok
           THEN /\ zone_data' = Append(zone_data, r.val)
                /\ warnings' = warnings
           ELSE /\ zone_data' = zone_data
                /\ warnings' = warnings \cup {Head(todo)}
    /\ todo' = Tail(todo)
    /\ UNCHANGED <<ZONES, tz, dt, ret, call, result, gpc, _zone_cache>>

\* generate_micropython_module(zone_data, args.output); the module written is
\* the one a device then imports.
GenerateModule ==
    /\ gpc = "extract"
    /\ todo = << >>
    /\ LET r == generate_micropython_module(zone_data)
       IN  IF r.ok
           THEN ZONES' = Some(r.val) /\ gpc' = "done"
           ELSE ZONES' = ZONES /\ gpc' = "crashed"
    /\ UNCHANGED <<tz, dt, ret, call, result, todo, zone_data, warnings, _zone_cache>>

NextGen ==
    \/ ExtractZone
    \/ GenerateModule
    \/ \E key \in ZoneNames : ZoneInfoInit(key)

SpecGen == InitGen /\ [][NextGen]_vars

\* ======================================================== properties

\* The zone rule of the handle the caller holds.
HeldRule == Get(tz).zone_data
Holds(hemisphere) ==
    ~IsNone(tz) /\ HeldRule[3] /\ HeldRule[4] = Some(hemisphere)

\* A (month, day, hour) triple as one number, ordered as the triples are.
Lex(t) == t[1] * 10000 + t[2] * 100 + t[3]
Current == <<dt[2], dt[3], dt[4]>>

\* dst_start / dst_end of a rule resolved for a year: (month, day, hour).
Resolved(t, year) == <<t[1], _nth_weekday(year, t[1], t[2], t[3]), t[4]>>
StartOf(rule, year) == Resolved(rule[5], year)
EndOf(rule, year) == Resolved(rule[6], year)

\* dt is the first Sunday of its month.
OnFirstSunday == dt[3] <= 7 /\ weekday_of(dt[1], dt[2], dt[3]) = 6

\* The last dst(dt) reported DST as active / the last utcoffset(dt) was the DST one.
SawDst == ret.op = "dst" /\ ret.val # 0

\* C1: for a southern zone, DST is active at dt exactly when (month, day, hour)
\* is at or after the resolved start or before the resolved end; for the rule
\* first Sunday of October 02:00 -> first Sunday of April 03:00 it is active on
\* the start day from hour 2 on and in mid-January, and inactive on the start
\* day before hour 2 and in mid-July.
C1_SouthRule ==
    Holds("south") =>
        LET active == _is_dst_active(dt, HeldRule)
            inside == \/ Lex(Current) >= Lex(StartOf(HeldRule, dt[1]))
                      \/ Lex(Current) < Lex(EndOf(HeldRule, dt[1]))
        IN  /\ active <=> inside
            /\ ret.op = "dst" => (ret.val # 0 <=> inside)
            /\ (HeldRule[5] = <<10, 1, 6, 2>> /\ HeldRule[6] = <<4, 1, 6, 3>>) =>
                  /\ (dt[2] = 10 /\ OnFirstSunday) => (active <=> dt[4] >= 2)
                  /\ (dt[2] = 1 /\ dt[3] = 15) => active
                  /\ (dt[2] = 7 /\ dt[3] = 15) => ~active

\* dst() has just reported DST at 02:00 on the first Sunday of October for a
\* southern zone.
C1_Witness ==
    /\ Holds("south")
    /\ dt[2] = 10 /\ OnFirstSunday /\ dt[4] = 2
    /\ SawDst

\* C2: for a northern zone, DST is active at dt exactly when (month, day, hour)
\* is at or after the resolved start and before the resolved end; for a rule
\* from March to November it is active on 1 July and inactive on 25 December
\* of every year.
C2_NorthRule ==
    Holds("north") =>
        LET active == _is_dst_active(dt, HeldRule)
            inside == /\ Lex(Current) >= Lex(StartOf(HeldRule, dt[1]))
                      /\ Lex(Current) < Lex(EndOf(HeldRule, dt[1]))
        IN  /\ active <=> inside
            /\ ret.op = "dst" => (ret.val # 0 <=> inside)
            /\ (HeldRule[5][1] = 3 /\ HeldRule[6][1] = 11) =>
                  /\ (dt[2] = 7 /\ dt[3] = 1) => active
                  /\ (dt[2] = 12 /\ dt[3] = 25) => ~active

\* dst() has just reported DST on 1 July of a later year for a March-November zone.
C2_Witness ==
    /\ Holds("north")
    /\ HeldRule[5][1] = 3 /\ HeldRule[6][1] = 11
    /\ dt[1] > RefYear /\ dt[2] = 7 /\ dt[3] = 1
    /\ SawDst

\* C3: utcoffset(dt) is the DST offset when DST is active at dt and the
\* standard offset otherwise; dst(dt) is their difference when active and zero
\* otherwise; utcoffset(dt) - dst(dt) is always the standard offset.
C3_Offsets ==
    ~IsNone(tz) =>
        LET active == _is_dst_active(dt, HeldRule)
            std == HeldRule[1] * 60
            summer == HeldRule[2] * 60
        IN  /\ ret.op = "utcoffset" => ret.val = (IF active THEN summer ELSE std)
            /\ ret.op = "dst" => ret.val = (IF active THEN summer - std ELSE 0)
            /\ ret.op = "utcoffset" => ret.val - dst(Get(tz), dt) = std
            /\ ret.op = "dst" => utcoffset(Get(tz), dt) - ret.val = std

\* utcoffset() has just returned the DST offset of a zone whose offsets differ.
C3_Witness ==
    /\ ~IsNone(tz)
    /\ HeldRule[1] # HeldRule[2]
    /\ ret.op = "utcoffset"
    /\ ret.val = HeldRule[2] * 60

\* Reading a label UTC<sign><H>[:<MM>] back.
IsDigit(c) == c \in {"0", "1", "2", "3", "4", "5", "6", "7", "8", "9"}
DigitVal(c) == CHOOSE n \in 0..9 : DigitChar(n) = c

RECURSIVE ParseNat(_)
ParseNat(cs) ==
    IF Len(cs) = 0 THEN 0
    ELSE ParseNat(SubSeq(cs, 1, Len(cs) - 1)) * 10 + DigitVal(cs[Len(cs)])

AllDigits(cs) == Len(cs) > 0 /\ \A i \in 1..Len(cs) : IsDigit(cs[i])

\* The label has the form UTC, a sign, H and, iff MM is not zero, a colon and
\* MM in two digits, and it denotes the offset of `minutes` minutes.
LabelDenotes(label, minutes) ==
    /\ Len(label) >= 5
    /\ SubSeq(label, 1, 3) = <<"U", "T", "C">>
    /\ label[4] \in {"+", "-"}
    /\ LET rest == SubSeq(label, 5, Len(label))
           colons == {i \in 1..Len(rest) : rest[i] = ":"}
           sign == IF label[4] = "-" THEN -1 ELSE 1
       IN  IF colons = {}
           THEN /\ AllDigits(rest)
                /\ sign * ParseNat(rest) * 60 = minutes
           ELSE LET c == CHOOSE i \in colons : TRUE
                    hh == SubSeq(rest, 1, c - 1)
                    mm == SubSeq(rest, c + 1, Len(rest))
                IN  /\ Cardinality(colons) = 1
                    /\ AllDigits(hh)
                    /\ AllDigits(mm) /\ Len(mm) = 2
                    /\ ParseNat(mm) \in 1..59
                    /\ sign * (ParseNat(hh) * 60 + ParseNat(mm)) = minutes

\* C4: the label tzname returns denotes exactly the offset utcoffset returns,
\* in the form UTC, sign, H and, iff MM is not zero, :MM in two digits, for
\* every offset a zone of the table can have, the negative ones that are not
\* whole hours included.
C4_LabelDenotesOffset ==
    ret.op = "tzname" =>
        LabelDenotes(ret.val, utcoffset(Get(tz), dt) \div 60)

\* C5: _nth_weekday returns a day of the month that falls on the requested
\* weekday: the k-th such day for week k in 1..4, the last such day for
\* week 5; (2024, 4, 5, 6) gives 28 and (2024, 10, 1, 6) gives 6.
C5_NthWeekday ==
    (call.fn = "_nth_weekday" /\ ~IsNone(result)) =>
        LET d == Get(result)
            len == days_in_month(call.year, call.month)
            same == {e \in 1..len :
                        weekday_of(call.year, call.month, e) = call.weekday}
        IN  /\ d \in same
            /\ call.week \in 1..4 =>
                   Cardinality({e \in same : e <= d}) = call.week
            /\ call.week = 5 => d + 7 > len
            /\ (call.year = 2024 /\ call.month = 4 /\ call.week = 5
                  /\ call.weekday = 6) => d = 28
            /\ (call.year = 2024 /\ call.month = 10 /\ call.week = 1
                  /\ call.weekday = 6) => d = 6

\* The last Sunday of April 2024 has been resolved, and it is the 28th.
C5_Witness ==
    /\ call.fn = "_nth_weekday"
    /\ call.year = 2024 /\ call.month = 4 /\ call.week = 5 /\ call.weekday = 6
    /\ result = Some(28)

\* The transition dicts a scan has found.
FoundRules ==
    {Get(o) : o \in {x \in {Get(result).start, Get(result).end} : ~IsNone(x)}}

\* C6: the (month, week, weekday) find_dst_transitions derives for the day on
\* which it detects a change of the DST flag resolves, by _nth_weekday for the
\* scanned year, to that day again; a change on any day but 1 January (which
\* has no day before it in the scan) is detected, as a start when the flag
\* turns on and as an end when it turns off.
C6_RoundTrip ==
    (call.fn = "find_dst_transitions" /\ ~IsNone(result)) =>
        /\ \A r \in FoundRules :
              /\ r.month = call.month
              /\ _nth_weekday(call.year, r.month, r.week, r.weekday) = call.day
        /\ <<call.month, call.day>> # <<1, 1>> =>
              /\ IsNone(Get(result).start) = call.tz.alt0
              /\ IsNone(Get(result).end) = ~call.tz.alt0

\* A change detected on a fourth occurrence that is also the last one of its
\* month has been encoded as week 5.
C6_Witness ==
    /\ call.fn = "find_dst_transitions"
    /\ ~IsNone(result)
    /\ call.day \in 22..28
    /\ call.day + 7 > days_in_month(call.year, call.month)
    /\ \E r \in FoundRules : r.week = 5

\* The caller holds a zone with DST and dt is on the day of one of its two
\* transitions.
OnTransitionDay ==
    /\ ~IsNone(tz) /\ HeldRule[3]
    /\ \E t \in {StartOf(HeldRule, dt[1]), EndOf(HeldRule, dt[1])} :
          t[1] = dt[2] /\ t[2] = dt[3]

C8_UnknownZone ==
    /\ [](/\ (ret.op = "ZoneInfo" /\ ret.key \notin DOMAIN Get(ZONES)) =>
                /\ ret.val = "KeyError"
                /\ IsNone(tz) \/ Get(tz).key # ret.key
          /\ ~IsNone(tz) =>
                /\ Get(tz).key \in DOMAIN Get(ZONES)
                /\ Get(tz).zone_data = Get(ZONES)[Get(tz).key]
          /\ \A i \in 1..Len(zone_data) :
                /\ zone_data[i].name \in DOMAIN TZDB
                /\ zone_data[i].name \notin warnings
          /\ warnings \cap DOMAIN TZDB = {}
          /\ ~IsNone(ZONES) => warnings \cap DOMAIN Get(ZONES) = {})
    /\ [][(ret' # ret /\ ret'.op = "ZoneInfo" /\ ret'.val = "KeyError") =>
              (tz' = tz /\ ZONES' = ZONES)]_vars
    /\ [][(todo # << >> /\ todo' = Tail(todo) /\ Head(todo) \notin DOMAIN TZDB) =>
              (zone_data' = zone_data /\ Head(todo) \in warnings')]_vars
    /\ [][~IsNone(ZONES) => ZONES' = ZONES]_vars

\* A name main() skipped with a warning has also been refused by ZoneInfo()
\* of the module it generated.
C8_Witness ==
    /\ ret.op = "ZoneInfo"
    /\ ret.val = "KeyError"
    /\ ret.key \in warnings

\* C9: for a zone without DST, _is_dst_active is false at every datetime,
\* dst(dt) is zero and utcoffset(dt) is the standard offset.
C9_NoDst ==
    /\ \A k \in DOMAIN Get(ZONES) :
          ~Get(ZONES)[k][3] => ~_is_dst_active(dt, Get(ZONES)[k])
    /\ (~IsNone(tz) /\ ~HeldRule[3]) =>
          /\ ret.op = "dst" => ret.val = 0
          /\ ret.op = "utcoffset" => ret.val = HeldRule[1] * 60

\* utcoffset() has just returned the non-zero standard offset of a zone
\* without DST in July.
C9_Witness ==
    /\ ~IsNone(tz) /\ ~HeldRule[3] /\ HeldRule[1] # 0
    /\ dt[2] = 7
    /\ ret.op = "utcoffset"
    /\ ret.val = HeldRule[1] * 60

\* Both transition rules of a record are present.
BothPresent(z) ==
    /\ ~IsNone(z.transitions)
    /\ ~IsNone(Get(z.transitions).start)
    /\ ~IsNone(Get(z.transitions).end)

\* C10: every record get_zone_info returns has both transition rules exactly
\* when has_dst is true, whatever the pattern of daily DST flags, and writing
\* the module never fails.
C10_RecordsComplete ==
    /\ gpc # "crashed"
    /\ \A i \in 1..Len(zone_data) :
          BothPresent(zone_data[i]) <=> Truthy(zone_data[i].has_dst)

\* The entry the generator writes for a zone at offset 0 without DST.
UtcEntry == <<0, 0, FALSE, None, None, None>>

\* C11: every zone table main() builds, whatever names were requested (known
\* to the database or not), has the key "UTC" mapped to the zero-offset,
\* no-DST entry (0, 0, False, None, None, None); main() that ran to its end
\* has built one.
C11_UtcPresent ==
    /\ gpc = "done" => ~IsNone(ZONES)
    /\ ~IsNone(ZONES) =>
          /\ "UTC" \in DOMAIN Get(ZONES)
          /\ Get(ZONES)["UTC"] = UtcEntry

\* A table built from a request that did not name UTC and named a zone the
\* database does not know.
C11_Witness ==
    /\ gpc = "done"
    /\ ~IsNone(ZONES)
    /\ warnings = {"Nowhere/Atlantis"}
    /\ DOMAIN Get(ZONES) = {"Europe/London", "UTC"}

\* The outcome the caller kept, and whether the call just made has its inputs.
Remembered == Get(result)
SameCall ==
    /\ ~IsNone(result)
    /\ ret.op # "none"
    /\ ret.op = Remembered.ret.op
    /\ CASE ret.op = "ZoneInfo" -> ret.key = Remembered.ret.key
         [] ret.op = "available_timezones" -> TRUE
         [] OTHER -> /\ Get(tz).key = Get(Remembered.tz).key
                     /\ dt = Remembered.dt

\* C12: no query (ZoneInfo(key), utcoffset, dst, tzname, available_timezones)
\* changes the zone table or the module-level cache, and a handle changes only
\* by a successful construction; so whatever queries were made in between, a
\* query with the same zone and datetime as an earlier one returns what the
\* earlier one returned.
C12_QueriesPure ==
    /\ [](SameCall =>
            /\ ret = Remembered.ret
            /\ (ret.op = "ZoneInfo" /\ ret.val = "ok" => tz = Remembered.tz))
    /\ [][/\ ZONES' = ZONES
          /\ _zone_cache' = _zone_cache
          /\ (tz' # tz => ret'.op = "ZoneInfo" /\ ret'.val = "ok")]_vars

\* utcoffset asked again for Australia/Adelaide at a datetime in DST, after
\* the first answer was kept.
C12_Witness ==
    /\ SameCall
    /\ ret.op = "utcoffset"
    /\ Get(tz).key = "Australia/Adelaide"
    /\ ret.val = 630 * 60
    /\ _zone_cache = << >>

\* What the database reports for the zone of record r at noon on 15 January
\* and on 15 July of the reference year, in seconds.
JanDelta(r) == dst_seconds(TZDB[r.name], 1, 15)
JanOffset(r) == utcoffset_seconds(TZDB[r.name], 1, 15)
JulOffset(r) == utcoffset_seconds(TZDB[r.name], 7, 15)

WellFormed(r) ==
    /\ IsNone(r.hemisphere) <=> ~Truthy(r.has_dst)
    /\ ~Truthy(r.has_dst) => r.dst_offset_minutes = r.std_offset_minutes
    /\ Truthy(r.has_dst) =>
          IF JanDelta(r) > 0
          THEN /\ r.hemisphere = Some("south")
               /\ r.std_offset_minutes * 60 = JulOffset(r)
               /\ r.dst_offset_minutes * 60 = JanOffset(r)
          ELSE /\ r.hemisphere = Some("north")
               /\ r.std_offset_minutes * 60 = JanOffset(r)
               /\ r.dst_offset_minutes * 60 = JulOffset(r)

\* C13: every record get_zone_info returns is well formed: hemisphere is None
\* exactly when has_dst is false; without DST the two offsets are equal; with
\* DST the hemisphere is 'south' exactly when the mid-January sample has a
\* positive DST delta (standard offset from July, DST offset from January),
\* and 'north' otherwise (standard from January, DST from July).
C13_WellFormed ==
    \A i \in 1..Len(zone_data) : WellFormed(zone_data[i])

\* Records of a southern zone, a northern zone and a zone without DST.
C13_Witness ==
    /\ \E i \in 1..Len(zone_data) :
          /\ zone_data[i].hemisphere = Some("south")
          /\ zone_data[i].std_offset_minutes = 570
          /\ zone_data[i].dst_offset_minutes = 630
    /\ \E i \in 1..Len(zone_data) :
          /\ zone_data[i].hemisphere = Some("north")
          /\ zone_data[i].std_offset_minutes = -210
          /\ zone_data[i].dst_offset_minutes = -150
    /\ \E i \in 1..Len(zone_data) :
          /\ IsNone(zone_data[i].hemisphere)
          /\ zone_data[i].std_offset_minutes = -570
          /\ zone_data[i].dst_offset_minutes = -570

\* The generic zone rule of the Australian DST zones (Australia/Adelaide).
AusRule == <<570, 630, TRUE, Some("south"), <<10, 1, 6, 2>>, <<4, 1, 6, 3>>>>

\* C14: the hard-coded Australian evaluator is a special case of the generic
\* one: _first_sunday(year, m) is _nth_weekday(year, m, 1, 6) for April and
\* October, and the hard-coded _is_dst_active(dt, True) returns what the
\* generic _is_dst_active returns for the rule (std, dst, True, 'south',
\* (10, 1, 6, 2), (4, 1, 6, 3)), at every hour of every year.
C14_SpecialCase ==
    /\ (~IsNone(result) /\ Get(result).month \in {4, 10}) =>
          Get(result).day =
              _nth_weekday(Get(result).year, Get(result).month, 1, 6)
    /\ (ret.op = "example._is_dst_active" /\ ret.has_dst) =>
          ret.val = _is_dst_active(dt, AusRule)

\* Both functions called at 02:00 on the first Sunday of April, the 1st of
\* the month: DST is still active.
C14_Witness ==
    /\ dt[2] = 4 /\ dt[3] = 1 /\ dt[4] = 2
    /\ ~IsNone(result)
    /\ Get(result).day = 1
    /\ ret.op = "example._is_dst_active"
    /\ ret.has_dst
    /\ ret.val

\* The days of the reference year, and the zones of the database whose noon
\* DST flag changes on exactly two of them (from one day to the next) and
\* differs between 15 January and 15 July.
RefDays == {md \in (1..12) \X (1..31) : valid_date(RefYear, md[1], md[2])}
FlipsTwice(z) ==
    /\ z.delta > 0
    /\ Cardinality(z.flips) = 2
    /\ z.flips \subseteq RefDays \ {<<1, 1>>}
    /\ alt_at(z, 1, 15) # alt_at(z, 7, 15)

\* C15: for a zone whose noon DST flag flips exactly twice in the scanned
\* year and differs between 15 January and 15 July, the entry the generator
\* writes, evaluated by _is_dst_active at 12:00 on each day of that year,
\* gives the flag the database reported for that day.
C15_ExtractorEvaluatorAgree ==
    (~IsNone(tz) /\ FlipsTwice(TZDB[Get(tz).key])) =>
        \A md \in RefDays :
            _is_dst_active(<<RefYear, md[1], md[2], 12>>, Get(tz).zone_data)
                = alt_at(TZDB[Get(tz).key], md[1], md[2])

====
